---- MODULE Spec2Model ----
(***************************************************************************)
(* Model of the K9 scent-cone core (src/lib/cone.ts): the visual cone      *)
(* geometry and computeScentEnvelope.                                      *)
(*                                                                         *)
(* The source computes in IEEE doubles.  The model computes in fixed       *)
(* point, with every intermediate value kept below 2^31:                   *)
(*   angles        millidegrees            (DegScale  = 1000 per degree)   *)
(*   sin, cos      ten-thousandths         (TrigScale = 10000)             *)
(*   feet          millifeet               (FtScale   = 1000 per foot)     *)
(*   metres        millimetres             (MScale    = 1000 per metre)    *)
(*   lat, lon      microdegrees            (LLScale   = 10^6 per degree)   *)
(*   wind speed    tenths of a mph         (MphScale  = 10 per mph)        *)
(*   exp, ln       millionths              (FixScale  = 10^6)              *)
(*   multipliers   hundredths or ten-thousandths, as noted at each use     *)
(* Timestamps are records [day, hh, mm, ss, ms] counted from an epoch day. *)
(***************************************************************************)
EXTENDS Integers, Sequences, FiniteSets, TLC

VARIABLES
  input,    \* the request handed to computeScentEnvelope
  pc,       \* "ready": not yet evaluated; "done": result holds its outcome
  result,   \* what computeScentEnvelope returned for input
  locals,   \* the local values of that evaluation (tMin, W, tau, L_m, ...)
  cone,     \* what computeCone returned for the same wind
  clock,    \* the caller's wall clock, in minutes since the epoch day
  calls,    \* the calls made so far: request, response, clock at the call
  appMode,            \* LiveMap: "live" or "scenario"
  mapMode,            \* LiveMap: "setSource" or "addTrap"
  lockSource,         \* LiveMap: the 'Lock point' checkbox
  lkps,               \* LiveMap: the live LKPs, newest first
  activeLkpId,        \* LiveMap: the id of the active LKP, or NoId
  scenarioLL,         \* LiveMap: the scenario point, or Null
  windMode,           \* LiveMap: "current" or "manual"
  storedWind,         \* LiveMap: the wind state (the last stored response), or Null
  fetches,            \* every wind fetch issued so far, in order, with its status
  srcPt,              \* LiveMap: the srcPoint state (screen point), or Null
  traps,              \* LiveMap: the terrain traps, newest first
  lastClick,          \* what the latest map click did ("none" before the first)
  showUserLocation,   \* LiveMap: 'Show my location'
  followUser,         \* LiveMap: 'Follow me'
  locateToken,        \* LiveMap: bumped to ask the map for a position
  centerOnMeToken,    \* LiveMap: bumped to ask the map to recenter once
  userLoc             \* LiveMap: the user's position as last reported, or Null

\* The state of computeScentEnvelope's and computeCone's callers.
envVars == <<input, pc, result, locals, cone, clock, calls>>

\* The map, point and wind state of LiveMap.
mapVars ==
  <<appMode, mapMode, lockSource, lkps, activeLkpId, scenarioLL, windMode,
    storedWind, fetches, srcPt, traps, lastClick>>

\* The user-location state of LiveMap.
locationVars ==
  <<showUserLocation, followUser, locateToken, centerOnMeToken, userLoc>>

vars ==
  <<input, pc, result, locals, cone, clock, calls,
    appMode, mapMode, lockSource, lkps, activeLkpId, scenarioLL, windMode,
    storedWind, fetches, srcPt, traps, lastClick,
    showUserLocation, followUser, locateToken, centerOnMeToken, userLoc>>

-----------------------------------------------------------------------------
(* Scales of the fixed-point representation.                               *)

DegScale == 10 ^ 3
TrigScale == 10 ^ 4
FtScale == 10 ^ 3
MScale == 10 ^ 3
LLScale == 10 ^ 6
MphScale == 5 * 2
FixScale == 10 ^ 6

-----------------------------------------------------------------------------
(* Arithmetic helpers.                                                     *)

Abs(a) == IF a < 0 THEN -a ELSE a

Sign(a) == IF a < 0 THEN -1 ELSE 1

Max(a, b) == IF a >= b THEN a ELSE b

Min(a, b) == IF a <= b THEN a ELSE b

\* round(a * b / c), a >= 0, b >= 0, c > 0, b * c < 2^31: no intermediate
\* value exceeds the result by more than b * c.
MulDivN(a, b, c) == (a \div c) * b + ((a % c) * b + c \div 2) \div c

\* The same for signed a and b: rounds half away from zero.
MulDiv(a, b, c) == Sign(a) * Sign(b) * MulDivN(Abs(a), Abs(b), c)

\* a * b / FixScale for 0 <= a < FixScale * 2, 0 <= b < FixScale * 2.
MulFix(a, b) == ((a \div 1000) * b) \div 1000 + ((a % 1000) * b) \div FixScale

\* The remainder operator of the source language: the sign of the dividend.
JsMod(a, n) == IF a >= 0 THEN a % n ELSE -((-a) % n)

\* Math.round on a value held as num / den (den > 0): floor(x + 1/2).
JsRound(num, den) == (2 * num + den) \div (2 * den)

RECURSIVE ISqrtFrom(_, _, _)
\* The largest r in lo..hi with r * r <= n.
ISqrtFrom(n, lo, hi) ==
  IF lo >= hi THEN lo
  ELSE LET mid == (lo + hi + 1) \div 2
       IN IF mid * mid <= n THEN ISqrtFrom(n, mid, hi)
          ELSE ISqrtFrom(n, lo, mid - 1)

\* floor(sqrt(n)) for 0 <= n < 2^31.
ISqrt(n) == ISqrtFrom(n, 0, 46340)

-----------------------------------------------------------------------------
(* Math.sin, Math.cos, Math.atan2, Math.exp, Math.log in fixed point.      *)

\* sin of 0..90 whole degrees, in units of 1 / TrigScale.
SinTable ==
  << 0, 175, 349, 523, 698, 872, 1045, 1219, 1392, 1564,
     1736, 1908, 2079, 2250, 2419, 2588, 2756, 2924, 3090, 3256,
     3420, 3584, 3746, 3907, 4067, 4226, 4384, 4540, 4695, 4848,
     5000, 5150, 5299, 5446, 5592, 5736, 5878, 6018, 6157, 6293,
     6428, 6561, 6691, 6820, 6947, 7071, 7193, 7314, 7431, 7547,
     7660, 7771, 7880, 7986, 8090, 8192, 8290, 8387, 8480, 8572,
     8660, 8746, 8829, 8910, 8988, 9063, 9135, 9205, 9272, 9336,
     9397, 9455, 9511, 9563, 9613, 9659, 9703, 9744, 9781, 9816,
     9848, 9877, 9903, 9925, 9945, 9962, 9976, 9986, 9994, 9998,
     10000 >>

\* sin of a millidegree angle in 0..90000: the table, linearly interpolated.
SinQ1(a) ==
  LET d == a \div DegScale
      f == a % DegScale
  IN IF f = 0 THEN SinTable[d + 1]
     ELSE SinTable[d + 1]
          + ((SinTable[d + 2] - SinTable[d + 1]) * f + DegScale \div 2) \div DegScale

\* Math.sin of any millidegree angle, in units of 1 / TrigScale.
Sin(a) ==
  LET m == a % (360 * DegScale)
  IN IF m <= 90 * DegScale THEN SinQ1(m)
     ELSE IF m <= 180 * DegScale THEN SinQ1(180 * DegScale - m)
     ELSE IF m <= 270 * DegScale THEN -SinQ1(m - 180 * DegScale)
     ELSE -SinQ1(360 * DegScale - m)

\* Math.cos of any millidegree angle, in units of 1 / TrigScale.
Cos(a) == Sin(a + 90 * DegScale)

RECURSIVE AtanSearch(_, _, _, _)
\* The largest angle a in lo..hi with tan(a) <= y / x, for x > 0, y >= 0.
AtanSearch(y, x, lo, hi) ==
  IF lo >= hi THEN lo
  ELSE LET mid == (lo + hi + 1) \div 2
       IN IF Sin(mid) * x <= Cos(mid) * y THEN AtanSearch(y, x, mid, hi)
          ELSE AtanSearch(y, x, lo, mid - 1)

\* Math.atan2(y, x) in millidegrees for y >= 0.  The operands are scaled
\* down together so that the products with sin and cos stay below 2^31.
Atan2(y, x) ==
  LET k == Max(Abs(x), y) \div 100000 + 1
      ys == y \div k
      xs == Abs(x) \div k
      q1 == IF xs = 0 THEN IF ys = 0 THEN 0 ELSE 90 * DegScale
            ELSE AtanSearch(ys, xs, 0, 90 * DegScale)
  IN IF x >= 0 THEN q1 ELSE 180 * DegScale - q1

RECURSIVE ExpTerms(_, _, _, _)
\* The alternating Taylor sum of exp(-num / den) from term n on, where term
\* is the magnitude of term n - 1, in units of 1 / FixScale.
ExpTerms(num, den, n, term) ==
  LET t == MulDivN(term, num, den * n)
  IN IF t = 0 THEN 0
     ELSE (IF n % 2 = 1 THEN -t ELSE t) + ExpTerms(num, den, n + 1, t)

\* Math.exp(-num / den) in units of 1 / FixScale, for 0 <= num / den <= 8.
ExpNeg(num, den) == Max(0, FixScale + ExpTerms(num, den, 1, FixScale))

RECURSIVE LnSeries(_, _, _)
\* y^k / k + y^(k+2) / (k+2) + ... where p = y^k, y2 = y^2 (fixed point).
LnSeries(p, y2, k) ==
  IF p = 0 THEN 0 ELSE p \div k + LnSeries(MulFix(p, y2), y2, k + 2)

RECURSIVE LnRatio(_, _)
\* Math.log(n / d) in units of 1 / FixScale for n >= d > 0: halve the
\* argument until it lies in [1, 2), then ln m = 2 atanh((m - 1) / (m + 1)).
LnRatio(n, d) ==
  IF n >= 2 * d THEN 693147 + LnRatio(n, 2 * d)
  ELSE LET y == ((n - d) * FixScale) \div (n + d)
       IN 2 * LnSeries(y, MulFix(y, y), 1)

-----------------------------------------------------------------------------
(* src/lib/cone.ts, lines 1-71: the visual cone.                           *)

clamp(n, a, b) == Max(a, Min(b, n))

\* (fromDeg + 180) % 360 with the source language's remainder.
downwindDeg(fromDeg) == JsMod(fromDeg + 180 * DegScale, 360 * DegScale)

\* A rotation with a sign slipped in the x coordinate.
rotatePointSignSlip(origin, p, deg) ==
  LET s == Sin(deg)
      c == Cos(deg)
      x == p.x - origin.x
      y == p.y - origin.y
  IN [x |-> origin.x + MulDiv(x, c, TrigScale) + MulDiv(y, s, TrigScale),
      y |-> origin.y + MulDiv(x, s, TrigScale) + MulDiv(y, c, TrigScale)]

\* Points are [x, y] in millipixels, deg in millidegrees.
rotatePoint(origin, p, deg) ==
  LET s == Sin(deg)
      c == Cos(deg)
      x == p.x - origin.x
      y == p.y - origin.y
  IN [x |-> origin.x + MulDiv(x, c, TrigScale) - MulDiv(y, s, TrigScale),
      y |-> origin.y + MulDiv(x, s, TrigScale) + MulDiv(y, c, TrigScale)]

\* The half angle with the boundary speeds on the upper branch.
defaultHalfAngleDegFromMphStrict(mph) ==
  IF mph < 3 * MphScale THEN 28 * DegScale
  ELSE IF mph < 8 * MphScale THEN 22 * DegScale
  ELSE IF mph < 14 * MphScale THEN 18 * DegScale
  ELSE 14 * DegScale

\* mph in tenths; the result in millidegrees.
defaultHalfAngleDegFromMph(mph) ==
  IF mph <= 3 * MphScale THEN 28 * DegScale
  ELSE IF mph <= 8 * MphScale THEN 22 * DegScale
  ELSE IF mph <= 14 * MphScale THEN 18 * DegScale
  ELSE 14 * DegScale

computeCone(src, lengthPx, halfAngleDeg, windFromDeg) ==
  LET down == downwindDeg(windFromDeg)
      tip0 == [x |-> src.x + lengthPx, y |-> src.y]
      left0 == rotatePoint(src, tip0, -halfAngleDeg)
      right0 == rotatePoint(src, tip0, halfAngleDeg)
  IN [left |-> rotatePoint(src, left0, -down),
      right |-> rotatePoint(src, right0, -down),
      tip |-> rotatePoint(src, tip0, -down),
      downwindDeg |-> down]

-----------------------------------------------------------------------------
(* src/lib/cone.ts, lines 73-303: the scent envelope.                      *)

\* Date.parse of a timestamp [day, hh, mm, ss, ms]: milliseconds since the
\* epoch day.
DateParse(iso) ==
  (((iso.day * 24 + iso.hh) * 60 + iso.mm) * 60 + iso.ss) * 1000 + iso.ms

\* setMinutes(getMinutes() + mins): the overflow carries into hours and days.
addMinutesIso(iso, mins) ==
  LET total == (iso.day * 24 + iso.hh) * 60 + iso.mm + mins
  IN [day |-> total \div 1440, hh |-> (total % 1440) \div 60, mm |-> total % 60,
      ss |-> iso.ss, ms |-> iso.ms]

metersPerDegreeLat == 111320

\* 111320 cos(lat), in whole metres; latDeg in microdegrees.
metersPerDegreeLon(latDeg) ==
  MulDiv(metersPerDegreeLat, Cos(latDeg \div (LLScale \div DegScale)), TrigScale)

\* start in microdegrees, bearingDeg in millidegrees, distance in millimetres.
moveLL(start, bearingDeg, distanceMeters) ==
  LET dNorth == MulDiv(distanceMeters, Cos(bearingDeg), TrigScale)
      dEast == MulDiv(distanceMeters, Sin(bearingDeg), TrigScale)
      dLat == MulDiv(dNorth, LLScale \div MScale, metersPerDegreeLat)
      dLon == MulDiv(dEast, LLScale \div MScale, metersPerDegreeLon(start.lat))
  IN [lat |-> start.lat + dLat, lon |-> start.lon + dLon]

downwind(fromDeg) == JsMod(fromDeg + 180 * DegScale, 360 * DegScale)

\* An unrecognized terrain shortens the envelope as urban terrain does.
terrainLenMultUnknownUrban(t) ==
  CASE t = "open" -> 110
    [] t = "forest" -> 95
    [] t = "swamp" -> 90
    [] t = "beach" -> 100
    [] t = "mixed" -> 100
    [] OTHER -> 85

\* In hundredths.
terrainLenMult(t) ==
  CASE t = "open" -> 110
    [] t = "forest" -> 95
    [] t = "urban" -> 85
    [] t = "swamp" -> 90
    [] t = "beach" -> 100
    [] OTHER -> 100

\* In hundredths.
stabilityMult(s) ==
  CASE s = "stable" -> 90
    [] s = "convective" -> 105
    [] OTHER -> 100

\* In ten-thousandths.
mixMult(s, terrain) ==
  LET m0 == 10000
      m1 == IF s = "stable" THEN (m0 * 85) \div 100 ELSE m0
      m2 == IF s = "convective" THEN (m1 * 125) \div 100 ELSE m1
  IN IF terrain = "urban" THEN (m2 * 115) \div 100 ELSE m2

\* The neutral default taken as 120 instead of 180.
tauMinutesNeutral120(tempF, rh, cloud, windMph) ==
  IF tempF < 65 /\ rh > 55 /\ (cloud = "overcast" \/ cloud = "night") THEN 240 ELSE 120

\* First match wins: the 120 rule shadows the 240 rule.
tauMinutesFirstMatch(tempF, rh, cloud, windMph) ==
  IF tempF > 85 \/ rh < 35 \/ windMph > 15 * MphScale \/ cloud = "clear" THEN 120
  ELSE IF tempF < 65 /\ rh > 55 /\ (cloud = "overcast" \/ cloud = "night") THEN 240
  ELSE 180

\* Two unconditional assignments in sequence: the later one wins.
tauMinutes(tempF, rh, cloud, windMph) ==
  LET tau0 == 180
      tau1 == IF tempF > 85 \/ rh < 35 \/ windMph > 15 * MphScale \/ cloud = "clear"
              THEN 120 ELSE tau0
  IN IF tempF < 65 /\ rh > 55 /\ (cloud = "overcast" \/ cloud = "night")
     THEN 240 ELSE tau1

\* The product with the humidity thresholds inclusive.
confidenceRawInclusive(tMin, tempF, rh, cloud, precip, recentRain, windMph) ==
  LET tau == tauMinutes(tempF, rh, cloud, windMph)
      cTime == 100 * ExpNeg(tMin, tau)
      hum == IF rh <= 30 THEN 80 ELSE IF rh >= 60 THEN 110 ELSE 100
      temp == IF tempF > 85 THEN 85 ELSE IF tempF < 60 THEN 105 ELSE 100
      sun == IF cloud = "clear" THEN 85
             ELSE IF cloud = "partly" THEN 95
             ELSE IF cloud = "overcast" \/ cloud = "night" THEN 105
             ELSE 100
      rain0 == IF precip = "heavy" THEN 7500
               ELSE IF precip = "moderate" THEN 9000
               ELSE IF precip = "light" THEN 9000
               ELSE 10000
      rain == IF recentRain THEN (rain0 * 95) \div 100 ELSE rain0
      wind == IF windMph <= 3 * MphScale THEN 85
              ELSE IF windMph <= 12 * MphScale THEN 100
              ELSE IF windMph <= 18 * MphScale THEN 90
              ELSE 80
  IN MulDiv(MulDiv(MulDiv(MulDiv(MulDiv(cTime, hum, 100), temp, 100),
                          sun, 100), rain, 10000), wind, 100)

\* The product with a time factor exp(-tau / (tMin + tau)), which grows with
\* the elapsed time.
confidenceRawRecovering(tMin, tempF, rh, cloud, precip, recentRain, windMph) ==
  LET tau == tauMinutes(tempF, rh, cloud, windMph)
      cTime == 100 * ExpNeg(tau, tMin + tau)
      hum == IF rh < 30 THEN 80 ELSE IF rh > 60 THEN 110 ELSE 100
      temp == IF tempF > 85 THEN 85 ELSE IF tempF < 60 THEN 105 ELSE 100
      sun == IF cloud = "clear" THEN 85
             ELSE IF cloud = "partly" THEN 95
             ELSE IF cloud = "overcast" \/ cloud = "night" THEN 105
             ELSE 100
      rain0 == IF precip = "heavy" THEN 7500
               ELSE IF precip = "moderate" THEN 9000
               ELSE IF precip = "light" THEN 9000
               ELSE 10000
      rain == IF recentRain THEN (rain0 * 95) \div 100 ELSE rain0
      wind == IF windMph <= 3 * MphScale THEN 85
              ELSE IF windMph <= 12 * MphScale THEN 100
              ELSE IF windMph <= 18 * MphScale THEN 90
              ELSE 80
  IN MulDiv(MulDiv(MulDiv(MulDiv(MulDiv(cTime, hum, 100), temp, 100),
                          sun, 100), rain, 10000), wind, 100)

\* c before rounding, in units of 1 / FixScale.
confidenceRaw(tMin, tempF, rh, cloud, precip, recentRain, windMph) ==
  LET tau == tauMinutes(tempF, rh, cloud, windMph)
      cTime == 100 * ExpNeg(tMin, tau)
      hum == IF rh < 30 THEN 80 ELSE IF rh > 60 THEN 110 ELSE 100
      temp == IF tempF > 85 THEN 85 ELSE IF tempF < 60 THEN 105 ELSE 100
      sun == IF cloud = "clear" THEN 85
             ELSE IF cloud = "partly" THEN 95
             ELSE IF cloud = "overcast" \/ cloud = "night" THEN 105
             ELSE 100
      rain0 == IF precip = "heavy" THEN 7500
               ELSE IF precip = "moderate" THEN 9000
               ELSE IF precip = "light" THEN 9000
               ELSE 10000
      rain == IF recentRain THEN (rain0 * 95) \div 100 ELSE rain0
      wind == IF windMph <= 3 * MphScale THEN 85
              ELSE IF windMph <= 12 * MphScale THEN 100
              ELSE IF windMph <= 18 * MphScale THEN 90
              ELSE 80
  IN MulDiv(MulDiv(MulDiv(MulDiv(MulDiv(cTime, hum, 100), temp, 100),
                          sun, 100), rain, 10000), wind, 100)

\* The score without the final clamp.
confidenceScoreNoClamp(tMin, tempF, rh, cloud, precip, recentRain, windMph) ==
  JsRound(confidenceRaw(tMin, tempF, rh, cloud, precip, recentRain, windMph), FixScale)

confidenceScore(tMin, tempF, rh, cloud, precip, recentRain, windMph) ==
  clamp(JsRound(confidenceRaw(tMin, tempF, rh, cloud, precip, recentRain, windMph),
                FixScale), 5, 100)

\* The band thresholds shifted by one.
confidenceBandStrict(c) ==
  IF c > 70 THEN "High" ELSE IF c > 40 THEN "Moderate" ELSE "Low"

confidenceBand(c) ==
  IF c >= 70 THEN "High" ELSE IF c >= 40 THEN "Moderate" ELSE "Low"

\* The reset minutes with the lower threshold at 50.
resetRecommendationAt50(c) ==
  IF c < 50 THEN 30 ELSE IF c < 70 THEN 45 ELSE 60

resetRecommendation(c) ==
  IF c < 40 THEN 30 ELSE IF c < 70 THEN 45 ELSE 60

\* The bearing of arc sample i, in millidegrees: start + (end - start) * i / points.
fanBearing(axisDeg, halfAngle, i, points) ==
  LET start == axisDeg - halfAngle
      end == axisDeg + halfAngle
  IN start + ((end - start) * i + points \div 2) \div points

\* The fan without its closing vertex.
coneFanOpen(lkp, axisDeg, lengthM, widthEndM, points) ==
  LET halfAngle == Atan2(widthEndM, lengthM)
  IN <<lkp>> \o [k \in 1..(points + 1) |->
                   moveLL(lkp, fanBearing(axisDeg, halfAngle, k - 1, points), lengthM)]

\* The fan whose loop stops before i = points.
coneFanExclusive(lkp, axisDeg, lengthM, widthEndM, points) ==
  LET halfAngle == Atan2(widthEndM, lengthM)
  IN <<lkp>> \o [k \in 1..points |->
                   moveLL(lkp, fanBearing(axisDeg, halfAngle, k - 1, points), lengthM)]
             \o <<lkp>>

\* lkp, then the samples i = 0..points, then lkp again.
coneFan(lkp, axisDeg, lengthM, widthEndM, points) ==
  LET halfAngle == Atan2(widthEndM, lengthM)
  IN <<lkp>> \o [k \in 1..(points + 1) |->
                   moveLL(lkp, fanBearing(axisDeg, halfAngle, k - 1, points), lengthM)]
             \o <<lkp>>

\* The default of coneFan's parameter points.
FanPoints == 28

\* Elapsed minutes as a magnitude: Math.abs in place of Math.max(0, .).
tMinAbs(inp) ==
  Abs(JsRound(DateParse(inp.now_time_iso) - DateParse(inp.lkp_time_iso), 60000))

\* Elapsed minutes read from the caller's clock instead of now_time_iso.
tMinFromClock(inp) ==
  Max(0, JsRound(clock * 60000 - DateParse(inp.lkp_time_iso), 60000))

\* tMin: whole minutes from the LKP time to the evaluation time, at least 0.
tMinOf(inp) ==
  Max(0, JsRound(DateParse(inp.now_time_iso) - DateParse(inp.lkp_time_iso), 60000))

\* The wind speed taken as given, without the lower clamp.
WindOfUnclamped(inp) == inp.wind_speed_mph

\* W: the wind speed, at least 0 (tenths of a mph).
WindOf(inp) == Max(0, inp.wind_speed_mph)

\* A length model whose base term shrinks with time.
L_mShrinking(tMin, W, terrain, stability) ==
  LET W_eff == Min(W, 18 * MphScale)
      L_base_ft == 30 * FtScale + 6 * FtScale * (0 - tMin)
      L_wind_ft == MulDivN(LnRatio(30 + tMin, 30), 120 * W_eff,
                           (FixScale * MphScale) \div FtScale)
      L_ft == MulDiv(MulDiv(L_base_ft + L_wind_ft, terrainLenMult(terrain), 100),
                     stabilityMult(stability), 100)
  IN MulDiv(L_ft, 3048, 10000)

\* A length model that uses the wind speed itself, without the 18 mph cap.
L_mUncapped(tMin, W, terrain, stability) ==
  LET W_eff == W
      L_base_ft == 30 * FtScale + 6 * FtScale * tMin
      L_wind_ft == MulDivN(LnRatio(30 + tMin, 30), 120 * W_eff,
                           (FixScale * MphScale) \div FtScale)
      L_ft == MulDiv(MulDiv(L_base_ft + L_wind_ft, terrainLenMult(terrain), 100),
                     stabilityMult(stability), 100)
  IN MulDiv(L_ft, 3048, 10000)

\* L_m: the envelope length in millimetres.
L_m(tMin, W, terrain, stability) ==
  LET W_eff == Min(W, 18 * MphScale)
      L_base_ft == 30 * FtScale + 6 * FtScale * tMin
      L_wind_ft == MulDivN(LnRatio(30 + tMin, 30), 120 * W_eff,
                           (FixScale * MphScale) \div FtScale)
      L_ft == MulDiv(MulDiv(L_base_ft + L_wind_ft, terrainLenMult(terrain), 100),
                     stabilityMult(stability), 100)
  IN MulDiv(L_ft, 3048, 10000)

\* Width_end_m: the envelope end width in millimetres.
Width_end_m(tMin, terrain, stability) ==
  LET mix == mixMult(stability, terrain)
      Width_end_ft ==
        MulDiv(20 * FtScale + (35 * FtScale * tMin) \div 10
                 + 40 * ISqrt(Max(1, tMin) * FtScale * FtScale),
               mix, 10000)
  IN MulDiv(Width_end_ft, 3048, 10000)

\* Zone scaling with the core and residual width factors exchanged.
ZoneScalingSwapped(L, Wd) ==
  [L_core |-> MulDiv(L, 55, 100), W_core |-> MulDiv(Wd, 115, 100),
   L_fringe |-> MulDiv(L, 85, 100), W_fringe |-> MulDiv(Wd, 80, 100),
   L_res |-> L, W_res |-> MulDiv(Wd, 45, 100)]

\* Zone scaling with a core of half the total length.
ZoneScalingShortCore(L, Wd) ==
  [L_core |-> MulDiv(L, 50, 100), W_core |-> MulDiv(Wd, 45, 100),
   L_fringe |-> MulDiv(L, 85, 100), W_fringe |-> MulDiv(Wd, 80, 100),
   L_res |-> L, W_res |-> MulDiv(Wd, 115, 100)]

\* Zone scaling: core 0.55 / 0.45, fringe 0.85 / 0.8, residual 1.0 / 1.15.
ZoneScaling(L, Wd) ==
  [L_core |-> MulDiv(L, 55, 100), W_core |-> MulDiv(Wd, 45, 100),
   L_fringe |-> MulDiv(L, 85, 100), W_fringe |-> MulDiv(Wd, 80, 100),
   L_res |-> L, W_res |-> MulDiv(Wd, 115, 100)]

\* The zones of a request.
ZonesOf(inp) ==
  ZoneScaling(L_m(tMinOf(inp), WindOf(inp), inp.terrain, inp.stability),
              Width_end_m(tMinOf(inp), inp.terrain, inp.stability))

\* The notes with the high-wind threshold exclusive.
DeploymentNotesAbove13(W, precip, c) ==
  (IF W <= 3 * MphScale THEN <<"Low wind">> ELSE <<>>)
  \o (IF W > 13 * MphScale THEN <<"Higher wind">> ELSE <<>>)
  \o (IF precip = "heavy" THEN <<"Heavy precip">> ELSE <<>>)
  \o (IF c < 40 THEN <<"Low confidence">>
      ELSE IF c < 70 THEN <<"Moderate confidence">>
      ELSE <<"High confidence">>)

\* The notes with the low-wind note given up to 13 mph.
DeploymentNotesOverlap(W, precip, c) ==
  (IF W <= 13 * MphScale THEN <<"Low wind">> ELSE <<>>)
  \o (IF W >= 13 * MphScale THEN <<"Higher wind">> ELSE <<>>)
  \o (IF precip = "heavy" THEN <<"Heavy precip">> ELSE <<>>)
  \o (IF c < 40 THEN <<"Low confidence">>
      ELSE IF c < 70 THEN <<"Moderate confidence">>
      ELSE <<"High confidence">>)

\* deployment_notes, each note named by its leading words.
DeploymentNotes(W, precip, c) ==
  (IF W <= 3 * MphScale THEN <<"Low wind">> ELSE <<>>)
  \o (IF W >= 13 * MphScale THEN <<"Higher wind">> ELSE <<>>)
  \o (IF precip = "heavy" THEN <<"Heavy precip">> ELSE <<>>)
  \o (IF c < 40 THEN <<"Low confidence">>
      ELSE IF c < 70 THEN <<"Moderate confidence">>
      ELSE <<"High confidence">>)

\* The start points with the two fractions exchanged.
startPointsFarFirst(lkp, axis, Lm) ==
  << [label |-> "LKP (Immediate)", point |-> lkp],
     [label |-> "Core Midline (~35%)", point |-> moveLL(lkp, axis, MulDiv(Lm, 55, 100))],
     [label |-> "Core Far (~55%)", point |-> moveLL(lkp, axis, MulDiv(Lm, 35, 100))] >>

\* startPoints: the LKP, and the points 35% and 55% of L_m along the axis.
startPoints(lkp, axis, Lm) ==
  << [label |-> "LKP (Immediate)", point |-> lkp],
     [label |-> "Core Midline (~35%)", point |-> moveLL(lkp, axis, MulDiv(Lm, 35, 100))],
     [label |-> "Core Far (~55%)", point |-> moveLL(lkp, axis, MulDiv(Lm, 55, 100))] >>

computeScentEnvelope(inp) ==
  LET lkp == [lat |-> inp.lkp_lat, lon |-> inp.lkp_lon]
      tMin == tMinOf(inp)
      W == WindOf(inp)
      Lm == L_m(tMin, W, inp.terrain, inp.stability)
      z == ZoneScaling(Lm, Width_end_m(tMin, inp.terrain, inp.stability))
      axis == downwind(inp.wind_from_deg)
      c == confidenceScore(tMin, inp.temperature_f, inp.rel_humidity_pct, inp.cloud,
                           inp.precip, inp.recent_rain, W)
  IN [minutes_since_lkp |-> tMin,
      polygons |-> [core |-> coneFan(lkp, axis, z.L_core, z.W_core, FanPoints),
                    fringe |-> coneFan(lkp, axis, z.L_fringe, z.W_fringe, FanPoints),
                    residual |-> coneFan(lkp, axis, z.L_res, z.W_res, FanPoints)],
      confidence_score |-> c,
      confidence_band |-> confidenceBand(c),
      reset_recommendation_minutes |-> resetRecommendation(c),
      recommended_start_points |-> startPoints(lkp, axis, Lm),
      deployment_notes |-> DeploymentNotes(W, inp.precip, c)]

\* The local values of computeScentEnvelope(inp) and of the confidenceScore
\* call it makes.
LocalsOf(inp) ==
  LET tMin == tMinOf(inp)
      W == WindOf(inp)
      Lm == L_m(tMin, W, inp.terrain, inp.stability)
      Wd == Width_end_m(tMin, inp.terrain, inp.stability)
  IN [tMin |-> tMin, W |-> W, L_m |-> Lm, Width_end_m |-> Wd,
      zones |-> ZoneScaling(Lm, Wd),
      axis |-> downwind(inp.wind_from_deg),
      tau |-> tauMinutes(inp.temperature_f, inp.rel_humidity_pct, inp.cloud, W)]

\* The notes panel of LiveMap: deployment_notes.slice(0, 3).
notesPanel(notes) == SubSeq(notes, 1, Min(3, Len(notes)))

-----------------------------------------------------------------------------
(* The callers' values (src/components/LiveMap.tsx, ConeCanvas).           *)

\* useState(780): the cone length in pixels.
lengthPx == 780

\* The source point on a 1200 x 800 canvas, in millipixels.
srcPoint == [x |-> 600 * 1000, y |-> 400 * 1000]

\* ConeCanvas: the half angle is "auto", the wind is the envelope's wind.
ConeOf(inp) ==
  computeCone(srcPoint, lengthPx * 1000,
              defaultHalfAngleDegFromMph(inp.wind_speed_mph), inp.wind_from_deg)

-----------------------------------------------------------------------------
(* Inputs.                                                                 *)

MaxMinutes == 240
MaxCalls == 3
MaxClock == 2

\* The caller's clock when the session starts: 13:00 on the LKP day.
ClockStart == (3 * 24 + 13) * 60

At(h, m, sec, msec) == [day |-> 3, hh |-> h, mm |-> m, ss |-> sec, ms |-> msec]

\* The LKP time of every request.
T0 == At(12, 0, 0, 0)

\* The end-to-end scenario of the specification.
Baseline ==
  [lkp_lat |-> 27490000, lkp_lon |-> -82450000,
   lkp_time_iso |-> T0, now_time_iso |-> At(13, 0, 0, 0),
   wind_from_deg |-> 270 * DegScale, wind_speed_mph |-> 10 * MphScale,
   temperature_f |-> 75, rel_humidity_pct |-> 50, cloud |-> "partly",
   precip |-> "none", recent_rain |-> FALSE,
   terrain |-> "mixed", stability |-> "neutral"]

Clouds == {"clear", "partly", "overcast", "night"}
Precips == {"none", "light", "moderate", "heavy"}
Terrains == {"mixed", "open", "forest", "urban", "swamp", "beach"}
Stabilities == {"neutral", "stable", "convective"}

\* Evaluation times: 0, 60 and 600 minutes after the LKP time.
EnvNows == {T0, At(13, 0, 0, 0), At(22, 0, 0, 0)}

\* Evaluation times before the LKP time (120 min, 90 s, 30 s), at it, and
\* 29.999 s, 30 s, 60 min and 600 min after it.
GeoNows ==
  {At(10, 0, 0, 0), At(11, 58, 30, 0), At(11, 59, 30, 0), T0,
   At(12, 0, 29, 999), At(12, 0, 30, 0), At(13, 0, 0, 0), At(22, 0, 0, 0)}

\* Wind speeds around the thresholds 3, 12, 15 and 18 mph (tenths of a mph).
EnvWinds == {30, 100, 151, 181}

\* Temperature, humidity and sky around every threshold; no precipitation.
WeatherRequests ==
  {[Baseline EXCEPT !.now_time_iso = n, !.wind_speed_mph = w, !.temperature_f = t,
                    !.rel_humidity_pct = h, !.cloud = c] :
     n \in EnvNows, w \in EnvWinds, t \in {59, 64, 65, 75, 85, 86},
     h \in {29, 34, 35, 55, 56, 61}, c \in Clouds}

\* Precipitation and recent rain, in mild, cool-humid and hot-dry air.
RainRequests ==
  {[Baseline EXCEPT !.now_time_iso = n, !.wind_speed_mph = w, !.temperature_f = th[1],
                    !.rel_humidity_pct = th[2], !.cloud = c, !.precip = p,
                    !.recent_rain = r] :
     n \in EnvNows, w \in EnvWinds, th \in {<<75, 50>>, <<59, 61>>, <<86, 29>>},
     c \in Clouds, p \in Precips, r \in BOOLEAN}

\* Geometry: time, wind speed and bearing (negative and >= 360 included),
\* terrain and stability, in the baseline weather.
GeoRequests ==
  {[Baseline EXCEPT !.now_time_iso = n, !.wind_speed_mph = w, !.wind_from_deg = d,
                    !.terrain = tr, !.stability = st] :
     n \in GeoNows, w \in {-40, 0, 100, 250},
     d \in {-270 * DegScale, 0, 45500, 180 * DegScale, 270 * DegScale, 540 * DegScale},
     tr \in Terrains, st \in Stabilities}

\* A tag outside each documented set, next to the set's neutral value (the
\* sky has no neutral tag: "partly" stands beside the unknown one).
TagRequests ==
  {[Baseline EXCEPT !.now_time_iso = n, !.wind_speed_mph = w, !.terrain = tr,
                    !.stability = st, !.cloud = c, !.precip = p, !.recent_rain = r] :
     n \in EnvNows, w \in {100, 181}, tr \in {"mixed", "tundra"},
     st \in {"neutral", "inversion"}, c \in {"partly", "fog"},
     p \in {"none", "snow"}, r \in BOOLEAN}

\* Temperature, humidity and wind at and next to every threshold of the
\* confidence factors and of the deployment notes, at the LKP time and an
\* hour later.
ThresholdRequests ==
  {[Baseline EXCEPT !.now_time_iso = n, !.wind_speed_mph = w, !.temperature_f = t,
                    !.rel_humidity_pct = h, !.precip = pr[1], !.recent_rain = pr[2]] :
     n \in {T0, At(13, 0, 0, 0)}, w \in {30, 31, 120, 121, 129, 130, 180, 181},
     t \in {59, 60, 85, 86}, h \in {29, 30, 60, 61},
     pr \in {<<"none", FALSE>>, <<"heavy", FALSE>>, <<"light", TRUE>>}}

Requests ==
  WeatherRequests \cup RainRequests \cup GeoRequests \cup TagRequests
    \cup ThresholdRequests

\* The requests whose elapsed time is then advanced minute by minute.
ElapseRequests ==
  {[Baseline EXCEPT !.now_time_iso = T0, !.wind_speed_mph = w, !.terrain = tr,
                    !.stability = st] :
     w \in {0, 100, 250}, tr \in Terrains, st \in Stabilities}
    \cup {[Baseline EXCEPT !.now_time_iso = T0, !.temperature_f = c[1],
                           !.rel_humidity_pct = c[2], !.cloud = c[3], !.precip = c[4],
                           !.recent_rain = c[5]] :
            c \in {<<59, 61, "overcast", "none", FALSE>>,
                   <<86, 29, "clear", "heavy", TRUE>>,
                   <<64, 56, "night", "light", FALSE>>}}

\* The requests of the repeated calls.
CallRequests ==
  {Baseline,
   [Baseline EXCEPT !.now_time_iso = At(12, 30, 0, 0)],
   [Baseline EXCEPT !.wind_from_deg = 0, !.wind_speed_mph = 20 * MphScale],
   [Baseline EXCEPT !.cloud = "clear", !.terrain = "urban"]}

\* The half angle ConeCanvas is given: "auto", or a number of degrees.
HalfAngles ==
  {[auto |-> TRUE, deg |-> 0]}
    \cup {[auto |-> FALSE, deg |-> d * DegScale] : d \in {10, 18, 45}}

\* Wind speeds around the thresholds 3, 8 and 14 mph (tenths of a mph).
ConeWinds == {20, 30, 31, 50, 80, 81, 100, 140, 141, 200}

\* Wind-from bearings: the four cardinal ones, diagonals, a fractional one,
\* and one beyond a full turn.
ConeBearings ==
  {0, 90 * DegScale, 180 * DegScale, 270 * DegScale, 45 * DegScale, 135500,
   315 * DegScale, 450 * DegScale}

\* What ConeCanvas is given: the source point and the length in millipixels,
\* the half angle, the wind speed in tenths of a mph and the wind-from bearing.
ConeRequests ==
  {[srcPoint |-> sp, lengthPx |-> len, halfAngleDeg |-> h, mph |-> w,
    wind_dir_from_deg |-> d] :
     sp \in {srcPoint, [x |-> 0, y |-> 0]},
     len \in {lengthPx * 1000, 300 * 1000},
     h \in HalfAngles, w \in ConeWinds, d \in ConeBearings}

NoResult == [none |-> TRUE]

\* null, for a state that holds a point, a wind observation or nothing.
Null == [none |-> TRUE]

\* null, for the id of the active LKP.
NoId == ""

\* LiveMap's useState initial values (the map is ready, nothing selected).
InitLiveMap ==
  /\ appMode = "live"
  /\ mapMode = "setSource"
  /\ lockSource = TRUE
  /\ lkps = <<>>
  /\ activeLkpId = NoId
  /\ scenarioLL = Null
  /\ windMode = "current"
  /\ storedWind = Null
  /\ fetches = <<>>
  /\ srcPt = Null
  /\ traps = <<>>
  /\ lastClick = "none"
  /\ showUserLocation = FALSE
  /\ followUser = FALSE
  /\ locateToken = 0
  /\ centerOnMeToken = 0
  /\ userLoc = Null

-----------------------------------------------------------------------------
(* One evaluation of a request.                                            *)

Init ==
  /\ input \in Requests
  /\ pc = "ready"
  /\ result = NoResult
  /\ locals = NoResult
  /\ cone = NoResult
  /\ clock = ClockStart
  /\ calls = <<>>
  /\ InitLiveMap

\* The caller evaluates the envelope and the cone for the current input.
Evaluate ==
  /\ pc = "ready"
  /\ pc' = "done"
  /\ result' = computeScentEnvelope(input)
  /\ locals' = LocalsOf(input)
  /\ cone' = ConeOf(input)
  /\ UNCHANGED <<input, clock, calls>>
  /\ UNCHANGED <<mapVars, locationVars>>

Next == Evaluate

Spec == Init /\ [][Next]_vars

-----------------------------------------------------------------------------
(* Elapsed time advancing: the evaluation time moves on by one minute and  *)
(* the envelope is evaluated again (LiveMap's scenario slider and tick).   *)

InitElapse ==
  /\ input \in ElapseRequests
  /\ pc = "ready"
  /\ result = NoResult
  /\ locals = NoResult
  /\ cone = NoResult
  /\ clock = ClockStart
  /\ calls = <<>>
  /\ InitLiveMap

Tick ==
  /\ pc = "done"
  /\ locals.tMin < MaxMinutes
  /\ input' = [input EXCEPT !.now_time_iso = addMinutesIso(input.now_time_iso, 1)]
  /\ result' = computeScentEnvelope(input')
  /\ locals' = LocalsOf(input')
  /\ cone' = ConeOf(input')
  /\ UNCHANGED <<pc, clock, calls>>
  /\ UNCHANGED <<mapVars, locationVars>>

NextElapse == Evaluate \/ Tick

SpecElapse == InitElapse /\ [][NextElapse]_vars

-----------------------------------------------------------------------------
(* Repeated calls while the caller's clock runs.                           *)

InitCalls ==
  /\ input \in CallRequests
  /\ pc = "ready"
  /\ result = NoResult
  /\ locals = NoResult
  /\ cone = NoResult
  /\ clock = ClockStart
  /\ calls = <<>>
  /\ InitLiveMap

\* The caller calls computeScentEnvelope with any request.
Call(req) ==
  /\ Len(calls) < MaxCalls
  /\ input' = req
  /\ pc' = "done"
  /\ result' = computeScentEnvelope(req)
  /\ locals' = LocalsOf(req)
  /\ cone' = ConeOf(req)
  /\ calls' = Append(calls, [request |-> req, response |-> result', at |-> clock])
  /\ UNCHANGED clock
  /\ UNCHANGED <<mapVars, locationVars>>

\* A minute passes on the caller's clock.
ClockTick ==
  /\ clock < ClockStart + MaxClock
  /\ clock' = clock + 1
  /\ UNCHANGED <<input, pc, result, locals, cone, calls>>
  /\ UNCHANGED <<mapVars, locationVars>>

NextCalls == (\E req \in CallRequests : Call(req)) \/ ClockTick

SpecCalls == InitCalls /\ [][NextCalls]_vars

-----------------------------------------------------------------------------
(* The visual cone alone: ConeCanvas picks the half angle and calls        *)
(* computeCone.                                                            *)

InitCone ==
  /\ input \in ConeRequests
  /\ pc = "ready"
  /\ result = NoResult
  /\ locals = NoResult
  /\ cone = NoResult
  /\ clock = ClockStart
  /\ calls = <<>>
  /\ InitLiveMap

\* halfAngle is the default for the wind speed when "auto", else the number.
DrawCone ==
  /\ pc = "ready"
  /\ pc' = "done"
  /\ LET halfAngle == IF input.halfAngleDeg.auto
                      THEN defaultHalfAngleDegFromMph(input.mph)
                      ELSE input.halfAngleDeg.deg
     IN /\ locals' = [mph |-> input.mph, halfAngle |-> halfAngle]
        /\ cone' = computeCone(input.srcPoint, input.lengthPx, halfAngle,
                               input.wind_dir_from_deg)
  /\ UNCHANGED <<input, result, clock, calls>>
  /\ UNCHANGED <<mapVars, locationVars>>

NextCone == DrawCone

SpecCone == InitCone /\ [][NextCone]_vars

-----------------------------------------------------------------------------
(* LiveMap: map clicks, the point lock and the wind fetches                *)
(* (src/components/LiveMap.tsx, lines 43-204 and 330-420).                 *)

MaxFetches == 2
MaxTraps == 1

\* The places the user clicks, in microdegrees.
Points ==
  {[lat |-> 27490000, lon |-> -82450000], [lat |-> 27500000, lon |-> -82440000]}

\* map.latLngToContainerPoint for a fixed view centred on the first place,
\* in millipixels.
containerPoint(ll) ==
  [x |-> srcPoint.x + (ll.lon - (-82450000)) * 20,
   y |-> srcPoint.y - (ll.lat - 27490000) * 20]

\* What /api/wind answers for a place (speed in mm/s); answers names the
\* fetch the observation answers.
WindAt(ll, k) ==
  IF ll.lat = 27490000
  THEN [wind_from_deg |-> 270 * DegScale, wind_speed_mps |-> 4500,
        time_local |-> "2024-01-03T13:00", answers |-> k]
  ELSE [wind_from_deg |-> 90 * DegScale, wind_speed_mps |-> 2000,
        time_local |-> "2024-01-03T13:00", answers |-> k]

HasActiveLkp == \E i \in 1..Len(lkps) : lkps[i].id = activeLkpId

\* lkps.find((k) => k.id === activeLkpId), when there is one.
activeLkp == lkps[CHOOSE i \in 1..Len(lkps) : lkps[i].id = activeLkpId]

HasSelectedLL == IF appMode = "live" THEN HasActiveLkp ELSE scenarioLL # Null

selectedLL ==
  IF appMode = "live" THEN [lat |-> activeLkp.lat, lon |-> activeLkp.lon]
  ELSE scenarioLL

\* The fetches that have not answered yet.
InFlight == {k \in 1..Len(fetches) : fetches[k].status = "pending"}

\* fetchWind up to its await: nothing in manual mode, else the request is
\* sent.
fetchWind(ll) ==
  IF windMode = "manual" THEN UNCHANGED fetches
  ELSE /\ Len(fetches) < MaxFetches
       /\ fetches' = Append(fetches, [lat |-> ll.lat, lon |-> ll.lon, status |-> "pending"])

\* onMapClick without the lock test.
onMapClickUnlocked(ll) ==
  IF mapMode = "addTrap"
  THEN /\ Len(traps) < MaxTraps
       /\ traps' = <<[id |-> Len(traps) + 1, lat |-> ll.lat, lon |-> ll.lon,
                      label |-> "Terrain trap"]>> \o traps
       /\ lastClick' = "trap"
       /\ UNCHANGED <<lkps, activeLkpId, scenarioLL, srcPt, fetches>>
  ELSE IF appMode = "scenario"
  THEN /\ scenarioLL' = ll
       /\ srcPt' = containerPoint(ll)
       /\ fetchWind(ll)
       /\ lastClick' = "scenario"
       /\ UNCHANGED <<lkps, activeLkpId, traps>>
  ELSE LET id == IF HasActiveLkp THEN activeLkp.id ELSE "lkp-1"
           lkp == [id |-> id, lat |-> ll.lat, lon |-> ll.lon, timeISO |-> clock,
                   label |-> IF HasActiveLkp THEN activeLkp.label ELSE "LKP"]
       IN /\ lkps' = <<lkp>> \o SelectSeq(lkps, LAMBDA q : q.id # id)
          /\ activeLkpId' = id
          /\ srcPt' = containerPoint(ll)
          /\ fetchWind(ll)
          /\ lastClick' = "moved"
          /\ UNCHANGED <<scenarioLL, traps>>

\* onMapClick: a trap in addTrap mode; the scenario point in scenario mode;
\* in live mode nothing while the point is locked, else the LKP is set (or
\* moved, keeping its id and label), the screen point recomputed and the
\* wind fetched.
onMapClick(ll) ==
  IF mapMode = "addTrap"
  THEN /\ Len(traps) < MaxTraps
       /\ traps' = <<[id |-> Len(traps) + 1, lat |-> ll.lat, lon |-> ll.lon,
                      label |-> "Terrain trap"]>> \o traps
       /\ lastClick' = "trap"
       /\ UNCHANGED <<lkps, activeLkpId, scenarioLL, srcPt, fetches>>
  ELSE IF appMode = "scenario"
  THEN /\ scenarioLL' = ll
       /\ srcPt' = containerPoint(ll)
       /\ fetchWind(ll)
       /\ lastClick' = "scenario"
       /\ UNCHANGED <<lkps, activeLkpId, traps>>
  ELSE IF lockSource /\ HasActiveLkp
  THEN /\ lastClick' = "ignored"
       /\ UNCHANGED <<lkps, activeLkpId, scenarioLL, srcPt, fetches, traps>>
  ELSE LET id == IF HasActiveLkp THEN activeLkp.id ELSE "lkp-1"
           lkp == [id |-> id, lat |-> ll.lat, lon |-> ll.lon, timeISO |-> clock,
                   label |-> IF HasActiveLkp THEN activeLkp.label ELSE "LKP"]
       IN /\ lkps' = <<lkp>> \o SelectSeq(lkps, LAMBDA q : q.id # id)
          /\ activeLkpId' = id
          /\ srcPt' = containerPoint(ll)
          /\ fetchWind(ll)
          /\ lastClick' = "moved"
          /\ UNCHANGED <<scenarioLL, traps>>

\* The user clicks the map.
MapClick(ll) ==
  /\ onMapClick(ll)
  /\ UNCHANGED <<appMode, mapMode, lockSource, windMode, storedWind>>
  /\ UNCHANGED <<envVars, locationVars>>

\* 'Fetch wind for selected point': rendered outside manual mode, disabled
\* without a selected point.
FetchWindButton ==
  /\ windMode # "manual"
  /\ HasSelectedLL
  /\ fetchWind(selectedLL)
  /\ UNCHANGED <<appMode, mapMode, lockSource, lkps, activeLkpId, scenarioLL,
                 windMode, storedWind, srcPt, traps, lastClick>>
  /\ UNCHANGED <<envVars, locationVars>>

\* A fetch answers with r.ok: setWind(js) as soon as the answer is there.
WindResponds(k) ==
  /\ k \in InFlight
  /\ fetches' = [fetches EXCEPT ![k].status = "ok"]
  /\ storedWind' = WindAt(fetches[k], k)
  /\ UNCHANGED <<appMode, mapMode, lockSource, lkps, activeLkpId, scenarioLL,
                 windMode, srcPt, traps, lastClick>>
  /\ UNCHANGED <<envVars, locationVars>>

\* A fetch answers without r.ok: fetchWind throws, the caller alerts.
WindFails(k) ==
  /\ k \in InFlight
  /\ fetches' = [fetches EXCEPT ![k].status = "error"]
  /\ UNCHANGED <<appMode, mapMode, lockSource, lkps, activeLkpId, scenarioLL,
                 windMode, storedWind, srcPt, traps, lastClick>>
  /\ UNCHANGED <<envVars, locationVars>>

\* The 'Lock point' checkbox, rendered in live mode.
SetLockSource ==
  /\ appMode = "live"
  /\ lockSource' = ~lockSource
  /\ UNCHANGED <<appMode, mapMode, lkps, activeLkpId, scenarioLL, windMode,
                 storedWind, fetches, srcPt, traps, lastClick>>
  /\ UNCHANGED <<envVars, locationVars>>

\* The Live / Scenario buttons.
SetAppMode(m) ==
  /\ appMode' = m
  /\ UNCHANGED <<mapMode, lockSource, lkps, activeLkpId, scenarioLL, windMode,
                 storedWind, fetches, srcPt, traps, lastClick>>
  /\ UNCHANGED <<envVars, locationVars>>

\* The map-mode buttons.
SetMapMode(m) ==
  /\ mapMode' = m
  /\ UNCHANGED <<appMode, lockSource, lkps, activeLkpId, scenarioLL, windMode,
                 storedWind, fetches, srcPt, traps, lastClick>>
  /\ UNCHANGED <<envVars, locationVars>>

\* The wind-mode select.
SetWindMode(m) ==
  /\ windMode' = m
  /\ UNCHANGED <<appMode, mapMode, lockSource, lkps, activeLkpId, scenarioLL,
                 storedWind, fetches, srcPt, traps, lastClick>>
  /\ UNCHANGED <<envVars, locationVars>>

InitLive ==
  /\ input = Baseline
  /\ pc = "ready"
  /\ result = NoResult
  /\ locals = NoResult
  /\ cone = NoResult
  /\ clock = ClockStart
  /\ calls = <<>>
  /\ InitLiveMap

NextLive ==
  \/ \E ll \in Points : MapClick(ll)
  \/ FetchWindButton
  \/ \E k \in 1..MaxFetches : WindResponds(k)
  \/ \E k \in 1..MaxFetches : WindFails(k)
  \/ SetLockSource
  \/ \E m \in {"live", "scenario"} : SetAppMode(m)
  \/ \E m \in {"setSource", "addTrap"} : SetMapMode(m)
  \/ \E m \in {"current", "manual"} : SetWindMode(m)

SpecLive == InitLive /\ [][NextLive]_vars

-----------------------------------------------------------------------------
(* LiveMap: the Live Location controls                                     *)
(* (src/components/LiveMap.tsx, lines 108-119 and 428-463).                *)

MaxTokens == 4

\* The 'Show my location' checkbox that leaves followUser as it is.
ToggleShowUserLocationKeepFollow ==
  LET on == ~showUserLocation
  IN /\ on => locateToken < MaxTokens
     /\ showUserLocation' = on
     /\ locateToken' = IF on THEN locateToken + 1 ELSE locateToken
     /\ UNCHANGED <<followUser, centerOnMeToken, userLoc>>
     /\ UNCHANGED <<envVars, mapVars>>

\* The 'Show my location' checkbox: turned on, the map is asked for a
\* position; turned off, following is turned off too.
ToggleShowUserLocation ==
  LET on == ~showUserLocation
  IN /\ on => locateToken < MaxTokens
     /\ showUserLocation' = on
     /\ locateToken' = IF on THEN locateToken + 1 ELSE locateToken
     /\ followUser' = IF on THEN followUser ELSE FALSE
     /\ UNCHANGED <<centerOnMeToken, userLoc>>
     /\ UNCHANGED <<envVars, mapVars>>

\* 'Center on me': the location display is turned on if it was off, and the
\* map is asked for a position and for one recentring.
CenterOnMe ==
  /\ locateToken < MaxTokens
  /\ showUserLocation' = TRUE
  /\ locateToken' = locateToken + 1
  /\ centerOnMeToken' = centerOnMeToken + 1
  /\ UNCHANGED <<followUser, userLoc>>
  /\ UNCHANGED <<envVars, mapVars>>

\* 'Follow me': disabled while the location display is off.
FollowMe ==
  /\ showUserLocation
  /\ followUser' = ~followUser
  /\ UNCHANGED <<showUserLocation, locateToken, centerOnMeToken, userLoc>>
  /\ UNCHANGED <<envVars, mapVars>>

\* The map reports a position (it listens only while the display is on).
LocationFound(ll) ==
  /\ showUserLocation
  /\ userLoc' = ll
  /\ UNCHANGED <<showUserLocation, followUser, locateToken, centerOnMeToken>>
  /\ UNCHANGED <<envVars, mapVars>>

NextLocation ==
  \/ ToggleShowUserLocation
  \/ CenterOnMe
  \/ FollowMe
  \/ \E ll \in Points : LocationFound(ll)

SpecLocation == InitLive /\ [][NextLocation]_vars

-----------------------------------------------------------------------------
(* Properties.                                                             *)

Done == pc = "done"

ZoneNames == {"core", "fringe", "residual"}

LkpOf(inp) == [lat |-> inp.lkp_lat, lon |-> inp.lkp_lon]

\* C1: the confidence score is an integer in [5, 100], and the band is High
\* exactly when score >= 70, Moderate exactly when 40 <= score < 70, Low
\* exactly when score < 40.
ScoreRangeAndBand ==
  Done =>
    /\ result.confidence_score \in 5..100
    /\ (result.confidence_band = "High") <=> (result.confidence_score >= 70)
    /\ (result.confidence_band = "Moderate") <=>
         (result.confidence_score >= 40 /\ result.confidence_score < 70)
    /\ (result.confidence_band = "Low") <=> (result.confidence_score < 40)

\* C1 witness: an evaluation whose unclamped product lies below 4, so that
\* the clamp decides the score.
ScoreClampedLow ==
  /\ Done
  /\ result.confidence_score = 5
  /\ result.confidence_band = "Low"
  /\ confidenceRaw(locals.tMin, input.temperature_f, input.rel_humidity_pct, input.cloud,
                   input.precip, input.recent_rain, locals.W) < 4 * FixScale

\* C2: each of the three polygons starts and ends at the LKP.
PolygonsClosed ==
  Done =>
    \A z \in ZoneNames :
      /\ Len(result.polygons[z]) >= 2
      /\ result.polygons[z][1] = LkpOf(input)
      /\ result.polygons[z][Len(result.polygons[z])] = LkpOf(input)

\* C2 witness: a polygon whose arc vertices all differ from the LKP.
PolygonWithArc ==
  /\ Done
  /\ \A z \in ZoneNames :
       \A k \in 2..(Len(result.polygons[z]) - 1) : result.polygons[z][k] # LkpOf(input)

\* C3: core length and width <= fringe <= residual, and the fan half angle
\* atan2(width, length) of core <= fringe <= residual.
ZonesNested ==
  Done =>
    LET z == locals.zones
    IN /\ z.L_core <= z.L_fringe /\ z.L_fringe <= z.L_res
       /\ z.W_core <= z.W_fringe /\ z.W_fringe <= z.W_res
       /\ Atan2(z.W_core, z.L_core) <= Atan2(z.W_fringe, z.L_fringe)
       /\ Atan2(z.W_fringe, z.L_fringe) <= Atan2(z.W_res, z.L_res)

\* C3 witness: zones that differ strictly in length, width and half angle.
ZonesStrictlyNested ==
  /\ Done
  /\ locals.zones.L_core < locals.zones.L_fringe
  /\ locals.zones.W_fringe < locals.zones.W_res
  /\ Atan2(locals.zones.W_core, locals.zones.L_core)
       < Atan2(locals.zones.W_res, locals.zones.L_res)

\* C4: minutes_since_lkp is never negative; it is the millisecond difference
\* between the evaluation time and the LKP time rounded to whole minutes, and
\* 0 whenever the evaluation time precedes the LKP time.
MinutesNonNegative ==
  Done =>
    LET d == DateParse(input.now_time_iso) - DateParse(input.lkp_time_iso)
        m == result.minutes_since_lkp
    IN /\ m >= 0
       /\ d < 0 => m = 0
       /\ d >= 0 => (2 * (m * 60000 - d) <= 60000 /\ 2 * (d - m * 60000) < 60000)

\* C4 witness: an evaluation 90 seconds before the LKP time (which rounds to
\* minus one minute) reports 0.
MinutesClamped ==
  /\ Done
  /\ DateParse(input.now_time_iso) - DateParse(input.lkp_time_iso) = -90000
  /\ result.minutes_since_lkp = 0

BaselineScenario ==
  (Done /\ input = Baseline) =>
    /\ result.minutes_since_lkp = 60
    /\ locals.tau = 180
    /\ result.confidence_score = 68
    /\ result.confidence_band = "Moderate"
    /\ result.reset_recommendation_minutes = 45
    /\ Len(result.recommended_start_points) = 3
    /\ result.recommended_start_points[1].label = "LKP (Immediate)"
    /\ result.recommended_start_points[2].label = "Core Midline (~35%)"
    /\ result.recommended_start_points[3].label = "Core Far (~55%)"

\* C6 witness: the scenario has been evaluated.
BaselineEvaluated == Done /\ input = Baseline /\ result.confidence_score = 68

\* C7: with wind, terrain and stability fixed, the envelope's length and end
\* width, and every zone's, do not decrease when the elapsed minutes grow.
LengthWidthMonotone ==
  [][(Done /\ pc' = "done" /\ locals'.tMin >= locals.tMin) =>
       /\ locals'.L_m >= locals.L_m
       /\ locals'.Width_end_m >= locals.Width_end_m
       /\ locals'.zones.L_core >= locals.zones.L_core
       /\ locals'.zones.W_core >= locals.zones.W_core
       /\ locals'.zones.L_fringe >= locals.zones.L_fringe
       /\ locals'.zones.W_fringe >= locals.zones.W_fringe
       /\ locals'.zones.L_res >= locals.zones.L_res
       /\ locals'.zones.W_res >= locals.zones.W_res]_vars

\* C7 witness: minutes have elapsed and the envelope is longer and wider
\* than it was at minute 0.
EnvelopeHasGrown ==
  /\ Done
  /\ locals.tMin >= 60
  /\ locals.L_m > L_m(0, locals.W, input.terrain, input.stability)
  /\ locals.Width_end_m > Width_end_m(0, input.terrain, input.stability)

\* C8: for any wind-from bearing, negative ones included, the downwindDeg
\* computeCone returns and the axis computeScentEnvelope uses equal
\* (fromDeg + 180) mod 360 and lie in [0, 360).
BearingsNormalized ==
  Done =>
    LET expected == (input.wind_from_deg + 180 * DegScale) % (360 * DegScale)
    IN /\ cone.downwindDeg >= 0 /\ cone.downwindDeg < 360 * DegScale
       /\ locals.axis >= 0 /\ locals.axis < 360 * DegScale
       /\ cone.downwindDeg = expected
       /\ locals.axis = expected

Rule120(inp) ==
  \/ inp.temperature_f > 85
  \/ inp.rel_humidity_pct < 35
  \/ Max(0, inp.wind_speed_mph) > 15 * MphScale
  \/ inp.cloud = "clear"

Rule240(inp) ==
  /\ inp.temperature_f < 65
  /\ inp.rel_humidity_pct > 55
  /\ inp.cloud \in {"overcast", "night"}

\* C9 as stated: the first matching rule wins, so tau is 120 whenever the
\* 120 rule matches, 240 only when it does not and the 240 rule does, else 180.
TauFirstMatchWins ==
  Done =>
    locals.tau = IF Rule120(input) THEN 120 ELSE IF Rule240(input) THEN 240 ELSE 180

\* C9 amended: the 240 rule wins over the 120 rule; tau is 240 whenever the
\* 240 rule matches, 120 when only the 120 rule matches, else 180.
TauLastMatchWins ==
  Done =>
    locals.tau = IF Rule240(input) THEN 240 ELSE IF Rule120(input) THEN 120 ELSE 180

\* C9 witness: both rules match (cool, humid, overcast or night, wind above
\* 15 mph) and tau is 240.
TauBothRulesMatch ==
  /\ Done
  /\ Rule120(input)
  /\ Rule240(input)
  /\ locals.tau = 240

\* The arc samples of zone polygon poly are those of length len and end
\* width wid: sample i lies at distance len on the bearing
\* axis - h + 2 h i / FanPoints, h = atan2(wid, len).
ArcSampled(poly, len, wid, nSamples) ==
  LET h == Atan2(wid, len)
      b(i) == locals.axis - h + (2 * h * i + FanPoints \div 2) \div FanPoints
  IN /\ \A i \in 0..(nSamples - 1) : poly[i + 2] = moveLL(LkpOf(input), b(i), len)
     /\ \A i \in 0..(nSamples - 2) : b(i) < b(i + 1)

Cardinals == {0, 90 * DegScale, 180 * DegScale, 270 * DegScale}

\* The point a length away from src along a compass bearing on a north-up
\* screen (x grows east, y grows south).
ScreenAlong(src, bearing, len) ==
  [x |-> src.x + MulDiv(len, Sin(bearing), TrigScale),
   y |-> src.y - MulDiv(len, Cos(bearing), TrigScale)]

\* C11: for each cardinal wind-from bearing the tip of the visual cone lies
\* lengthPx from the source along the downwind compass bearing on a north-up
\* screen (wind from 270 gives tip = (src.x + lengthPx, src.y), wind from 180
\* gives tip = (src.x, src.y - lengthPx)), which is the direction in which
\* moveLL displaces the envelope's points from the LKP for the same wind.
ConeAlongDownwind ==
  (Done /\ input.wind_dir_from_deg \in Cardinals) =>
    LET down == downwind(input.wind_dir_from_deg)
        lkp == LkpOf(Baseline)
        q == moveLL(lkp, down, 1000 * MScale)
    IN /\ cone.tip = ScreenAlong(input.srcPoint, down, input.lengthPx)
       /\ Sign(cone.tip.x - input.srcPoint.x) = Sign(q.lon - lkp.lon)
       /\ Sign(input.srcPoint.y - cone.tip.y) = Sign(q.lat - lkp.lat)

\* The distance from a to b in decimetres, by the metres per degree at a.
GroundDistance(a, b) ==
  LET north == MulDiv(b.lat - a.lat, metersPerDegreeLat, LLScale \div 10)
      east == MulDiv(b.lon - a.lon, metersPerDegreeLon(a.lat), LLScale \div 10)
  IN ISqrt(north * north + east * east)

\* C12: recommended_start_points has exactly three entries in the order
\* Immediate, Core Midline, Core Far: the LKP itself, the point 35% of L_m
\* along the downwind axis and the point 55% of L_m along the same axis, so
\* the distance from the LKP does not decrease along the list.
StartPointsOrdered ==
  Done =>
    LET sp == result.recommended_start_points
        lkp == LkpOf(input)
    IN /\ Len(sp) = 3
       /\ <<sp[1].label, sp[2].label, sp[3].label>> =
            <<"LKP (Immediate)", "Core Midline (~35%)", "Core Far (~55%)">>
       /\ sp[1].point = lkp
       /\ sp[2].point = moveLL(lkp, locals.axis, MulDiv(locals.L_m, 35, 100))
       /\ sp[3].point = moveLL(lkp, locals.axis, MulDiv(locals.L_m, 55, 100))
       /\ GroundDistance(lkp, sp[1].point) = 0
       /\ GroundDistance(lkp, sp[2].point) <= GroundDistance(lkp, sp[3].point)

\* C12 witness: an evaluation whose three start points lie at strictly
\* growing distances, the far one more than a kilometre from the LKP.
StartPointsSpread ==
  /\ Done
  /\ LET sp == result.recommended_start_points
     IN /\ 0 < GroundDistance(LkpOf(input), sp[2].point)
        /\ GroundDistance(LkpOf(input), sp[2].point)
             < GroundDistance(LkpOf(input), sp[3].point)
        /\ GroundDistance(LkpOf(input), sp[3].point) > 10000

\* The request with every unrecognized terrain, stability and precip tag
\* replaced by the neutral one of its set.
Neutralized(inp) ==
  [inp EXCEPT !.terrain = IF @ \in Terrains THEN @ ELSE "mixed",
              !.stability = IF @ \in Stabilities THEN @ ELSE "neutral",
              !.precip = IF @ \in Precips THEN @ ELSE "none"]

HasUnknownTag(inp) ==
  \/ inp.terrain \notin Terrains
  \/ inp.stability \notin Stabilities
  \/ inp.cloud \notin Clouds
  \/ inp.precip \notin Precips

\* C13: a terrain, stability, cloud or precip tag outside the documented set
\* is treated as the neutral default: the evaluation completes, the result
\* equals the one for mixed terrain, neutral stability and no precipitation,
\* and an unknown sky contributes the factor 1.0, i.e. the unclamped product
\* is 100 / 95 of the one under a partly cloudy sky.
UnknownTagsNeutral ==
  (Done /\ HasUnknownTag(input)) =>
    LET n == Neutralized(input)
        raw(cl) == confidenceRaw(tMinOf(n), n.temperature_f, n.rel_humidity_pct, cl,
                                 n.precip, n.recent_rain, WindOf(n))
    IN /\ result = computeScentEnvelope(n)
       /\ input.cloud \notin Clouds =>
            /\ Abs(MulDiv(raw(input.cloud), 95, 100) - raw("partly")) <= 2
            /\ locals.tau = tauMinutes(n.temperature_f, n.rel_humidity_pct, "partly",
                                       WindOf(n))

\* C13 witness: an evaluation in which all four tags are unrecognized.
AllTagsUnknown ==
  /\ Done
  /\ input.terrain \notin Terrains
  /\ input.stability \notin Stabilities
  /\ input.cloud \notin Clouds
  /\ input.precip \notin Precips
  /\ result.polygons = computeScentEnvelope(Baseline).polygons

\* C14: for a request with a negative wind speed every field of the result
\* is identical to the result of the same request with wind speed 0.
NegativeWindAsCalm ==
  (Done /\ input.wind_speed_mph < 0) =>
    /\ result = computeScentEnvelope([input EXCEPT !.wind_speed_mph = 0])
    /\ locals.W = 0

\* C14 witness: a negative wind speed, an hour after the LKP time, where a
\* positive wind of the same magnitude gives a longer envelope.
NegativeWindEvaluated ==
  /\ Done
  /\ input.wind_speed_mph < 0
  /\ locals.tMin = 60
  /\ locals.L_m < L_m(60, -input.wind_speed_mph, input.terrain, input.stability)

\* C15: a request with a wind speed of 18 mph or more has the same core,
\* fringe and residual polygons and the same recommended start points as the
\* same request with a wind speed of exactly 18 mph (and hence as any other
\* wind speed of 18 mph or more).
LengthCappedAt18 ==
  (Done /\ input.wind_speed_mph >= 18 * MphScale) =>
    LET at18 == computeScentEnvelope([input EXCEPT !.wind_speed_mph = 18 * MphScale])
    IN /\ result.polygons = at18.polygons
       /\ result.recommended_start_points = at18.recommended_start_points
       /\ locals.L_m = L_m(locals.tMin, 18 * MphScale, input.terrain, input.stability)

\* C15 witness: a wind of 25 mph an hour after the LKP time, where the length
\* is the one for 18 mph and exceeds the one for 10 mph.
WindAboveCap ==
  /\ Done
  /\ input.wind_speed_mph = 25 * MphScale
  /\ locals.tMin = 60
  /\ locals.L_m > L_m(60, 10 * MphScale, input.terrain, input.stability)
  /\ result.polygons.residual =
       computeScentEnvelope([input EXCEPT !.wind_speed_mph = 18 * MphScale]).polygons.residual

\* The positions of a note in a list of notes.
Positions(notes, note) == {k \in 1..Len(notes) : notes[k] = note}

BandNotes == {"Low confidence", "Moderate confidence", "High confidence"}

\* C16: deployment_notes holds, in this order, the low-wind note iff the wind
\* is at most 3 mph, the high-wind note iff it is at least 13 mph, the
\* heavy-precipitation note iff precip is heavy, and last exactly one
\* closing note, the one of the result's confidence band.
NotesOrdered ==
  Done =>
    LET n == result.deployment_notes
        low == Positions(n, "Low wind")
        high == Positions(n, "Higher wind")
        heavy == Positions(n, "Heavy precip")
        band == {k \in 1..Len(n) : n[k] \in BandNotes}
    IN /\ Cardinality(low) = (IF Max(0, input.wind_speed_mph) <= 3 * MphScale THEN 1 ELSE 0)
       /\ Cardinality(high) = (IF input.wind_speed_mph >= 13 * MphScale THEN 1 ELSE 0)
       /\ Cardinality(heavy) = (IF input.precip = "heavy" THEN 1 ELSE 0)
       /\ band = {Len(n)}
       /\ Len(n) = Cardinality(low) + Cardinality(high) + Cardinality(heavy) + 1
       /\ n[Len(n)] = result.confidence_band \o " confidence"
       /\ \A i \in low : \A j \in high \cup heavy \cup band : i < j
       /\ \A i \in high : \A j \in heavy \cup band : i < j
       /\ \A i \in heavy : \A j \in band : i < j

\* C16 witness: wind of exactly 13 mph in heavy precipitation: the high-wind
\* note, the heavy-precipitation note and the closing note, in this order.
NotesAt13Heavy ==
  /\ Done
  /\ input.wind_speed_mph = 13 * MphScale
  /\ input.precip = "heavy"
  /\ Len(result.deployment_notes) = 3
  /\ result.deployment_notes[1] = "Higher wind"
  /\ result.deployment_notes[2] = "Heavy precip"

\* C17: reset_recommendation_minutes is 60 exactly when confidence_band is
\* High, 45 exactly when it is Moderate and 30 exactly when it is Low.
ResetFollowsBand ==
  Done =>
    /\ (result.reset_recommendation_minutes = 60) <=> (result.confidence_band = "High")
    /\ (result.reset_recommendation_minutes = 45) <=> (result.confidence_band = "Moderate")
    /\ (result.reset_recommendation_minutes = 30) <=> (result.confidence_band = "Low")
    /\ result.reset_recommendation_minutes \in {30, 45, 60}

\* C17 witness: a score in 40..49, in the Moderate band with 45 minutes.
ResetModerate ==
  /\ Done
  /\ result.confidence_score \in 40..49
  /\ result.confidence_band = "Moderate"
  /\ result.reset_recommendation_minutes = 45

\* The documented factors, in hundredths (precipitation in ten-thousandths).
HumidityFactor(rh) ==
  CASE rh < 30 -> 80 [] rh > 60 -> 110 [] OTHER -> 100

TemperatureFactor(tempF) ==
  CASE tempF > 85 -> 85 [] tempF < 60 -> 105 [] OTHER -> 100

SkyFactor(cloud) ==
  CASE cloud = "clear" -> 85 [] cloud = "partly" -> 95
    [] cloud \in {"overcast", "night"} -> 105 [] OTHER -> 100

PrecipFactor(precip, recentRain) ==
  LET f == CASE precip = "heavy" -> 75 [] precip \in {"moderate", "light"} -> 90
             [] OTHER -> 100
  IN IF recentRain THEN f * 95 ELSE f * 100

WindFactor(w) ==
  CASE w <= 3 * MphScale -> 85
    [] w > 3 * MphScale /\ w <= 12 * MphScale -> 100
    [] w > 12 * MphScale /\ w <= 18 * MphScale -> 90
    [] OTHER -> 80

\* C18: the score is round(C_time * humidity * temperature * sky * precip *
\* wind) clamped to [5, 100], with C_time = 100 exp(-tMin / tau) and the five
\* factors of the documented table; at the LKP time (C_time = 100) with three
\* factors at 1.0 and the sky at 0.95 the score is round(95 * humidity), at
\* most 100.
ScoreMatchesTable ==
  Done =>
    LET cTime == 100 * ExpNeg(locals.tMin, locals.tau)
        hum == HumidityFactor(input.rel_humidity_pct)
        temp == TemperatureFactor(input.temperature_f)
        sky == SkyFactor(input.cloud)
        rain == PrecipFactor(input.precip, input.recent_rain)
        wind == WindFactor(locals.W)
        product == MulDiv(MulDiv(MulDiv(MulDiv(MulDiv(cTime, hum, 100), temp, 100),
                                        sky, 100), rain, 10000), wind, 100)
        rounded == JsRound(product, FixScale)
    IN /\ result.confidence_score =
            (IF rounded < 5 THEN 5 ELSE IF rounded > 100 THEN 100 ELSE rounded)
       /\ (locals.tMin = 0 /\ temp = 100 /\ rain = 10000 /\ wind = 100
             /\ input.cloud = "partly") =>
            result.confidence_score = Min(100, JsRound(95 * hum, 100))

\* C18 witness: humidity 30, temperature 60 and wind 12 mph, each on its
\* threshold, at the LKP time under a partly cloudy sky: all three factors
\* are 1.0 and the score is 95.
ScoreOnThresholds ==
  /\ Done
  /\ input.rel_humidity_pct = 30
  /\ input.temperature_f = 60
  /\ input.wind_speed_mph = 12 * MphScale
  /\ input.precip = "none"
  /\ locals.tMin = 0
  /\ result.confidence_score = 95

\* C19: defaultHalfAngleDegFromMph returns 28 for mph <= 3, 22 for
\* 3 < mph <= 8, 18 for 8 < mph <= 14 and 14 for mph > 14 (2 gives 28, 5 gives
\* 22, 10 gives 18, 20 gives 14); no higher wind speed gives a wider half
\* angle.
HalfAngleTable ==
  (Done /\ input.halfAngleDeg.auto) =>
    /\ locals.halfAngle =
         (CASE input.mph <= 3 * MphScale -> 28 * DegScale
            [] input.mph > 3 * MphScale /\ input.mph <= 8 * MphScale -> 22 * DegScale
            [] input.mph > 8 * MphScale /\ input.mph <= 14 * MphScale -> 18 * DegScale
            [] input.mph > 14 * MphScale -> 14 * DegScale)
    /\ input.mph = 2 * MphScale => locals.halfAngle = 28 * DegScale
    /\ input.mph = 5 * MphScale => locals.halfAngle = 22 * DegScale
    /\ input.mph = 10 * MphScale => locals.halfAngle = 18 * DegScale
    /\ input.mph = 20 * MphScale => locals.halfAngle = 14 * DegScale
    /\ \A w \in ConeWinds :
         w >= input.mph => defaultHalfAngleDegFromMph(w) <= locals.halfAngle

\* C19 witness: the boundary speed 8 mph falls on the lower branch, 22.
HalfAngleAt8 ==
  /\ Done
  /\ input.halfAngleDeg.auto
  /\ input.mph = 8 * MphScale
  /\ locals.halfAngle = 22 * DegScale

\* The square of a (|a| <= 10^6) as <<hi, lo>>, standing for hi * 10^6 + lo
\* with 0 <= lo < 10^6.
Square(a) ==
  LET a1 == Abs(a) \div 1000
      a0 == Abs(a) % 1000
      m == 2 * a1 * a0 * 1000 + a0 * a0
  IN <<a1 * a1 + m \div (10 ^ 6), m % (10 ^ 6)>>

SquareSum(p, q) ==
  <<p[1] + q[1] + (p[2] + q[2]) \div (10 ^ 6), (p[2] + q[2]) % (10 ^ 6)>>

SquareLeq(p, q) == p[1] < q[1] \/ (p[1] = q[1] /\ p[2] <= q[2])

\* The squared Euclidean distance from o to p.
SquaredDistance(o, p) == SquareSum(Square(p.x - o.x), Square(p.y - o.y))

ConePoints == {"left", "right", "tip"}

LatestFetchWins ==
  (/\ Len(fetches) > 0
   /\ \A k \in 1..Len(fetches) : fetches[k].status = "ok") =>
    /\ storedWind.answers = Len(fetches)
    /\ storedWind = WindAt(fetches[Len(fetches)], Len(fetches))

\* C22: in live mode with map mode 'setSource', a map click while 'Lock
\* point' is on and an active LKP exists leaves the LKP list, the active LKP
\* id and timestamp, the source screen point and the stored wind unchanged
\* and issues no wind fetch; and no step taken while the lock is on changes
\* the LKPs.
LockedClickChangesNothing ==
  [][/\ ((/\ appMode = "live"
          /\ mapMode = "setSource"
          /\ lockSource
          /\ HasActiveLkp
          /\ \E ll \in Points : MapClick(ll))
         => UNCHANGED <<lkps, activeLkpId, srcPt, storedWind, fetches>>)
     /\ ((appMode = "live" /\ lockSource /\ HasActiveLkp)
         => UNCHANGED <<lkps, activeLkpId>>)]_vars

\* C22 witness: the latest click was ignored by the lock, in live mode with
\* an active LKP and a stored wind.
ClickIgnoredByLock ==
  /\ lastClick = "ignored"
  /\ appMode = "live"
  /\ mapMode = "setSource"
  /\ lockSource
  /\ HasActiveLkp
  /\ storedWind # Null

\* High 3, Moderate 2, Low 1.
BandRank(band) == CASE band = "High" -> 3 [] band = "Moderate" -> 2 [] OTHER -> 1

\* C23: with the conditions and the wind fixed, a later evaluation never has
\* a higher confidence score, a better band or a longer reset time than an
\* earlier one: no step of the elapsed time raises any of the three (and so
\* none is higher at t2 than at t1 for t1 <= t2).
ConfidenceNeverRecovers ==
  [][(pc = "done" /\ pc' = "done" /\ locals'.tMin >= locals.tMin) =>
       /\ result'.confidence_score <= result.confidence_score
       /\ BandRank(result'.confidence_band) <= BandRank(result.confidence_band)
       /\ result'.reset_recommendation_minutes <= result.reset_recommendation_minutes]_vars

\* C23 witness: more than three hours after the LKP time the band is Low and
\* the reset time 30 minutes, where at the LKP time the same conditions gave
\* the High band.
ConfidenceDecayedToLow ==
  /\ Done
  /\ locals.tMin > 180
  /\ result.confidence_band = "Low"
  /\ result.reset_recommendation_minutes = 30
  /\ confidenceScore(0, input.temperature_f, input.rel_humidity_pct, input.cloud,
                     input.precip, input.recent_rain, locals.W) >= 70

\* C24: deployment_notes has at least 1 and at most 3 entries, the low-wind
\* and the high-wind note are never both present, and the first three notes,
\* which the panel shows, include the closing note of the band.
NotesFitPanel ==
  Done =>
    LET n == result.deployment_notes
        shown == notesPanel(n)
    IN /\ Len(n) \in 1..3
       /\ ~(Positions(n, "Low wind") # {} /\ Positions(n, "Higher wind") # {})
       /\ shown = n
       /\ shown[Len(shown)] = result.confidence_band \o " confidence"

\* C24 witness: calm air in heavy precipitation: three notes, all shown.
ThreeNotesShown ==
  /\ Done
  /\ input.wind_speed_mph <= 3 * MphScale
  /\ input.precip = "heavy"
  /\ Len(result.deployment_notes) = 3
  /\ result.deployment_notes[1] = "Low wind"
  /\ notesPanel(result.deployment_notes)[3] \in BandNotes

\* The position in a fan polygon of the arc sample on the axis: after the
\* leading LKP, sample FanPoints / 2 of the samples 0..FanPoints.
MidArc == 2 + FanPoints \div 2

\* C25: the 'Core Far' start point is the middle arc vertex of the core
\* polygon, the sample on the downwind axis at the core length 0.55 L_m, and
\* every start point lies on the axis at a distance from the LKP of at most
\* the core length (as laid out, and as measured on the ground to within
\* the resolution of the coordinates).
StartPointsInCore ==
  Done =>
    LET sp == result.recommended_start_points
        core == result.polygons.core
        lkp == LkpOf(input)
        along == <<0, MulDiv(locals.L_m, 35, 100), MulDiv(locals.L_m, 55, 100)>>
    IN /\ Len(core) = FanPoints + 3
       /\ core[MidArc] = sp[3].point
       /\ core[MidArc] = moveLL(lkp, locals.axis, locals.zones.L_core)
       /\ \A k \in 1..3 :
            /\ sp[k].point = moveLL(lkp, locals.axis, along[k])
            /\ along[k] <= locals.zones.L_core
            /\ GroundDistance(lkp, sp[k].point) <= locals.zones.L_core \div 100 + 2

\* C25 witness: an hour after the LKP time the 'Core Far' point is the
\* middle arc vertex, away from the LKP and from the neighbouring vertices.
CoreFarOnArc ==
  /\ Done
  /\ locals.tMin = 60
  /\ result.polygons.core[MidArc] = result.recommended_start_points[3].point
  /\ result.polygons.core[MidArc] # LkpOf(input)
  /\ result.polygons.core[MidArc - 1] # result.polygons.core[MidArc]
  /\ result.polygons.core[MidArc + 1] # result.polygons.core[MidArc]

\* C26: showUserLocation and followUser both start false; followUser is
\* true only if showUserLocation is true; turning the location display off
\* turns following off; and following changes only in a step that starts
\* with the display on.
FollowOnlyWhenShown ==
  /\ (~showUserLocation /\ ~followUser)
  /\ [](followUser => showUserLocation)
  /\ [][/\ (showUserLocation /\ ~showUserLocation') => ~followUser'
        /\ (followUser' # followUser) => showUserLocation]_vars

\* C26 witness: following is on, with the location display on, after
\* 'Center on me' was pressed and the map reported a position.
FollowingWhileShown ==
  /\ followUser
  /\ showUserLocation
  /\ centerOnMeToken > 0
  /\ userLoc # Null

====
